---- MODULE Spec2Model ----
(***************************************************************************)
(* A model of the notebook 02-CustomCNN.ipynb: the two directory data      *)
(* sources, the Sequential layer stack, the fit_generator training loop    *)
(* and the three save cells.  The notebook's cells run top to bottom; a    *)
(* cell that raises stops the run.  The framework calls are modelled by    *)
(* what the calls made in the notebook do (tf.keras 2.1.0, the version     *)
(* the first cell prints).                                                 *)
(***************************************************************************)
EXTENDS Integers, Sequences, FiniteSets, TLC

VARIABLES
    input_shape,      \* cell 2: (height, width, channels)
    num_classes,      \* cell 2
    dirs,             \* the dataset directories on disk: train, val
    train_generator,  \* cell 3: the training DirectoryIterator
    valid_generator,  \* cell 4: the validation DirectoryIterator
    model,            \* cell 5: layers, output shapes, parameter tensors
    compiled,         \* cell 8: model.compile was called
    pc,               \* the cell (or the phase of fit_generator) to run next
    epochs,           \* fit_generator's epochs argument
    epoch,            \* epochs finished so far inside fit_generator
    order,            \* batch indices of the current training pass, in order
    seen_train,       \* batches consumed by the current epoch's training pass
    seen_valid,       \* batches consumed by the current epoch's validation pass
    fwd,              \* the last forward pass: its mode and the layers applied
    logs,             \* the current epoch's running metrics
    history,          \* history.history: one entry per finished epoch
    models_dir,       \* whether the directory models/ exists and is writable
    files,            \* the three target paths under models/
    err               \* the exception that stopped the run, or "none"

vars == <<input_shape, num_classes, dirs, train_generator, valid_generator,
          model, compiled, pc, epochs, epoch, order, seen_train, seen_valid,
          fwd, logs, history, models_dir, files, err>>

(***************************************************************************)
(* Bounds of the model.                                                    *)
(***************************************************************************)
MaxTrain == 3
MaxValid == 2
MaxBatch == 2
MaxEpochs == 3
ShapeSpread == 1

(***************************************************************************)
(* Program constants.                                                      *)
(***************************************************************************)
KernelSize == 3
PoolSize == 2
Height == 160
Width == 160
Channels == 3
NumClasses == 10
TrainImages == 12897
TrainBatchSize == 64
ValidImages == 500
ValidBatchSize == 32
NotebookEpochs == 3
TrainSteps == 202
ValidSteps == 16

Min(a, b) == IF a < b THEN a ELSE b

(***************************************************************************)
(* Layers.  Every layer is a record of the same fields; a field a layer    *)
(* kind does not use holds a default.  rate is a percentage.               *)
(***************************************************************************)
Conv2D(filters, same) ==
    [kind |-> "Conv2D", units |-> filters, same |-> same, rate |-> 0, act |-> "linear"]

Activation(a) ==
    [kind |-> "Activation", units |-> 0, same |-> FALSE, rate |-> 0, act |-> a]

MaxPooling2D ==
    [kind |-> "MaxPooling2D", units |-> 0, same |-> FALSE, rate |-> 0, act |-> "linear"]

Dropout(r) ==
    [kind |-> "Dropout", units |-> 0, same |-> FALSE, rate |-> r, act |-> "linear"]

Flatten ==
    [kind |-> "Flatten", units |-> 0, same |-> FALSE, rate |-> 0, act |-> "linear"]

Dense(units) ==
    [kind |-> "Dense", units |-> units, same |-> FALSE, rate |-> 0, act |-> "linear"]

\* The eighteen model.add calls of cell 5, in order.
Stack(nc) ==
    << Conv2D(32, TRUE), Activation("relu"),
       Conv2D(32, FALSE), Activation("relu"),
       MaxPooling2D, Dropout(25),
       Conv2D(64, TRUE), Activation("relu"),
       Conv2D(64, FALSE), Activation("relu"),
       MaxPooling2D, Dropout(25),
       Flatten, Dense(512), Activation("relu"), Dropout(50),
       Dense(nc), Activation("softmax") >>

HasParams(l) == l.kind \in {"Conv2D", "Dense"}

Product(s) == IF Len(s) = 3 THEN s[1] * s[2] * s[3] ELSE s[1]

ConvShape_OffByOne(l, s) ==
    IF l.same THEN <<s[1], s[2], l.units>>
    ELSE <<s[1] - KernelSize, s[2] - KernelSize, l.units>>

\* padding='same' keeps rows and columns; the default 'valid' padding loses
\* KernelSize - 1 of each.
ConvShape(l, s) ==
    IF l.same THEN <<s[1], s[2], l.units>>
    ELSE <<s[1] - KernelSize + 1, s[2] - KernelSize + 1, l.units>>

\* The output shape of layer l on an input of shape s (batch axis left out).
OutShape(l, s) ==
    CASE l.kind = "Conv2D" -> ConvShape(l, s)
      [] l.kind = "MaxPooling2D" -> <<s[1] \div PoolSize, s[2] \div PoolSize, s[3]>>
      [] l.kind = "Flatten" -> <<Product(s)>>
      [] l.kind = "Dense" -> [s EXCEPT ![Len(s)] = l.units]
      [] OTHER -> s

\* The 'Param #' column of model.summary().
ParamCount(l, s) ==
    CASE l.kind = "Conv2D" -> KernelSize * KernelSize * s[3] * l.units + l.units
      [] l.kind = "Dense" -> s[Len(s)] * l.units + l.units
      [] OTHER -> 0

\* Sequential(): no layers yet.  input is the input_shape the first layer
\* is given.
Sequential(in) == [input |-> in, layers |-> <<>>, shapes |-> <<>>, weights |-> <<>>]

LastShape(m) ==
    IF m.shapes = <<>> THEN m.input ELSE m.shapes[Len(m.shapes)]

\* The input shape of the i-th layer of m.
InShape(m, i) == IF i = 1 THEN m.input ELSE m.shapes[i - 1]

\* model.add(l): the layer is built on the previous layer's output; a layer
\* with parameters gets a freshly initialised tensor (version 0).
AddTo(m, l) ==
    [input |-> m.input,
     layers |-> Append(m.layers, l),
     shapes |-> Append(m.shapes, OutShape(l, LastShape(m))),
     weights |-> IF HasParams(l) THEN Append(m.weights, 0) ELSE m.weights]

RECURSIVE AddAll(_, _)
AddAll(m, ls) ==
    IF ls = <<>> THEN m ELSE AddAll(AddTo(m, Head(ls)), Tail(ls))

(***************************************************************************)
(* The forward pass, as the sequence of layers that act on the input.  A   *)
(* Dropout layer acts (zeroes units, rescales the rest) only when the      *)
(* pass runs in training mode; otherwise it hands its input on.            *)
(***************************************************************************)
ApplyLayer_AlwaysDrop(l, training, x) == Append(x, l)

ApplyLayer(l, training, x) ==
    IF l.kind = "Dropout" /\ ~training THEN x ELSE Append(x, l)

RECURSIVE ForwardFrom(_, _, _)
ForwardFrom(layers, training, x) ==
    IF layers = <<>> THEN x
    ELSE ForwardFrom(Tail(layers), training, ApplyLayer(Head(layers), training, x))

Forward(layers, training) == ForwardFrom(layers, training, <<>>)

NotDropout(l) == l.kind # "Dropout"

WithoutDropout(layers) == SelectSeq(layers, NotDropout)

NoForward == [training |-> FALSE, ops |-> <<>>]

\* One optimizer step: every parameter tensor gets a new value.
Update(m) == [m EXCEPT !.weights = [i \in 1..Len(m.weights) |-> m.weights[i] + 1]]

(***************************************************************************)
(* The data source: ImageDataGenerator.flow_from_directory and the         *)
(* DirectoryIterator it returns.  Samples are numbered 1..n in discovery   *)
(* order.                                                                  *)
(***************************************************************************)
Missing == [exists |-> FALSE, classes |-> 0, n |-> 0]

DirStates(nc, maxN) ==
    {Missing, [exists |-> TRUE, classes |-> 0, n |-> 0]}
    \cup {[exists |-> TRUE, classes |-> nc, n |-> k] : k \in 0..maxN}

Unbound ==
    [bound |-> FALSE, n |-> 0, classes |-> 0, batch_size |-> 1,
     shuffle |-> FALSE, index_array |-> <<>>]

\* The iterator over the images found under the class subdirectories of d.
flow_from_directory(d, b, sh) ==
    [bound |-> TRUE, n |-> d.n, classes |-> d.classes, batch_size |-> b,
     shuffle |-> sh, index_array |-> <<>>]

BatchCount_Floor(g) == g.n \div g.batch_size

\* len(generator): the number of batches of one epoch.
BatchCount(g) == (g.n + g.batch_size - 1) \div g.batch_size

Arange(n) == [i \in 1..n |-> i]

Orders_AlwaysShuffle(g) == Permutations(1..g.n)

\* The index arrays _set_index_array can leave: the discovery order, or any
\* permutation of it when shuffle is on.
Orders(g) == IF g.shuffle THEN Permutations(1..g.n) ELSE {Arange(g.n)}

SetIndexArray(g) == {[g EXCEPT !.index_array = p] : p \in Orders(g)}

\* generator[idx], idx in 1..BatchCount(g): a slice of the index array.
GetItem(g, idx) ==
    SubSeq(g.index_array, g.batch_size * (idx - 1) + 1, Min(g.batch_size * idx, g.n))

RECURSIVE Samples(_)
\* The samples of a sequence of consumed batches, in the order consumed.
Samples(seen) ==
    IF seen = <<>> THEN <<>> ELSE Head(seen).samples \o Samples(Tail(seen))

\* The batch order of a pass of fit_generator: shuffled for the training
\* data (shuffle=True is fit_generator's default), in index order for the
\* validation data.
BatchOrders(g, shuffled) ==
    IF shuffled THEN Permutations(1..BatchCount(g)) ELSE {Arange(BatchCount(g))}

\* The running metrics of an epoch.  Each metric holds the number of samples
\* its running mean is taken over; steps and val_steps count the batches.
NoLogs ==
    [steps |-> 0, loss |-> 0, accuracy |-> 0,
     val_steps |-> 0, val_loss |-> 0, val_accuracy |-> 0]

TrainLogs(lg, batch) ==
    [lg EXCEPT !.steps = @ + 1, !.loss = @ + Len(batch), !.accuracy = @ + Len(batch)]

ValidLogs(lg, batch) ==
    [lg EXCEPT !.val_steps = @ + 1, !.val_loss = @ + Len(batch),
               !.val_accuracy = @ + Len(batch)]

\* The epoch's entry of history.history.
Entry(lg) ==
    [loss |-> lg.loss, accuracy |-> lg.accuracy,
     val_loss |-> lg.val_loss, val_accuracy |-> lg.val_accuracy]

(***************************************************************************)
(* Files.                                                                  *)
(***************************************************************************)
Paths == {"custom_model.h5", "custom_weights.h5", "custom_architecture.json"}

NoConfig == [batch_input_shape |-> <<>>, layers |-> <<>>]

FileOf(st) == [state |-> st, config |-> NoConfig, weights |-> <<>>]

LayerConfig(l) ==
    [class_name |-> l.kind,
     config |-> [units |-> l.units,
                 padding |-> IF l.same THEN "same" ELSE "valid",
                 rate |-> l.rate,
                 activation |-> l.act]]

\* model.to_json(): the layer sequence and the input shape, as text.
to_json(m) ==
    [batch_input_shape |-> m.input,
     layers |-> [i \in 1..Len(m.layers) |-> LayerConfig(m.layers[i])]]

save_model_WeightsOnly(m) ==
    [state |-> "complete", config |-> NoConfig, weights |-> m.weights]

\* What model.save writes: the architecture and the parameters.
save_model(m) ==
    [state |-> "complete", config |-> to_json(m), weights |-> m.weights]

\* What model.save_weights writes: the parameters, by layer position.
save_weights(m) ==
    [state |-> "complete", config |-> NoConfig, weights |-> m.weights]

\* What the json cell writes: the architecture.
save_architecture(m) ==
    [state |-> "complete", config |-> to_json(m), weights |-> <<>>]

FromConfig(c) ==
    [kind |-> c.class_name, units |-> c.config.units,
     same |-> (c.config.padding = "same"), rate |-> c.config.rate,
     act |-> c.config.activation]

\* Loading a full-model file: the layers are rebuilt from the stored
\* architecture and the stored parameters are put in their place.
load_model(f) ==
    LET ls == [i \in 1..Len(f.config.layers) |-> FromConfig(f.config.layers[i])]
        built == AddAll(Sequential(f.config.batch_input_shape), ls)
    IN  [built EXCEPT !.weights = f.weights]

(***************************************************************************)
(* What fit_generator does with the model on one batch, and how it moves   *)
(* from phase to phase.                                                    *)
(***************************************************************************)
\* A training batch: forward pass, loss, gradients, optimizer update.
TrainStep(m) == Update(m)

EvalStep_Updates(m) == Update(m)

\* A validation batch: forward pass and metrics only.
EvalStep(m) == m

TrainPassDone_AfterOne(st, g) == Len(st) >= 1

\* The training pass of an epoch is over when every batch was consumed; its
\* batches are dropped then, the running metrics stay.
TrainPassDone(st, g) == Len(st) = BatchCount(g)

ValidPassDone(sv, g) == Len(sv) = BatchCount(g)

(***************************************************************************)
(* The state before the first cell runs.                                   *)
(***************************************************************************)
\* models/ is missing, or it holds the three files of an earlier run.
InitFiles ==
    {[models |-> FALSE, files |-> [p \in Paths |-> FileOf("absent")]],
     [models |-> TRUE, files |-> [p \in Paths |-> FileOf("old")]]}

InitCommon ==
    /\ train_generator = Unbound
    /\ valid_generator = Unbound
    /\ model = Sequential(input_shape)
    /\ compiled = FALSE
    /\ epochs = 0
    /\ epoch = 0
    /\ order = <<>>
    /\ seen_train = <<>>
    /\ seen_valid = <<>>
    /\ fwd = NoForward
    /\ logs = NoLogs
    /\ history = <<>>
    /\ err = "none"

Init ==
    /\ input_shape = <<Height, Width, Channels>>
    /\ num_classes = NumClasses
    /\ dirs \in [train : DirStates(NumClasses, MaxTrain),
                 val : DirStates(NumClasses, MaxValid)]
    /\ \E fs \in InitFiles : models_dir = fs.models /\ files = fs.files
    /\ pc = "open_train"
    /\ InitCommon

Raise(e) == err' = e /\ pc' = "halt"

(***************************************************************************)
(* Cells 3 and 4: the data sources.                                        *)
(***************************************************************************)
\* os.listdir of a directory that does not exist raises; a directory with
\* no class subdirectory gives an iterator over zero images.
OpenTrain ==
    /\ pc = "open_train"
    /\ \E b \in 1..MaxBatch :
         IF ~dirs.train.exists
         THEN Raise("FileNotFoundError") /\ UNCHANGED train_generator
         ELSE /\ train_generator' = flow_from_directory(dirs.train, b, TRUE)
              /\ pc' = "open_valid"
              /\ UNCHANGED err
    /\ UNCHANGED <<input_shape, num_classes, dirs, valid_generator, model, compiled,
                   epochs, epoch, order, seen_train, seen_valid, fwd, logs, history,
                   models_dir, files>>

OpenValid ==
    /\ pc = "open_valid"
    /\ \E b \in {1, MaxBatch} :
         IF ~dirs.val.exists
         THEN Raise("FileNotFoundError") /\ UNCHANGED valid_generator
         ELSE /\ valid_generator' = flow_from_directory(dirs.val, b, FALSE)
              /\ pc' = "build"
              /\ UNCHANGED err
    /\ UNCHANGED <<input_shape, num_classes, dirs, train_generator, model, compiled,
                   epochs, epoch, order, seen_train, seen_valid, fwd, logs, history,
                   models_dir, files>>

(***************************************************************************)
(* Cells 5 to 8: the model.                                                *)
(***************************************************************************)
Build ==
    /\ pc = "build"
    /\ model' = AddAll(Sequential(input_shape), Stack(num_classes))
    /\ pc' = "summary"
    /\ UNCHANGED <<input_shape, num_classes, dirs, train_generator, valid_generator,
                   compiled, epochs, epoch, order, seen_train, seen_valid, fwd, logs,
                   history, models_dir, files, err>>

\* model.summary() prints the table and changes nothing.
Summary ==
    /\ pc = "summary"
    /\ pc' = "compile"
    /\ UNCHANGED <<input_shape, num_classes, dirs, train_generator, valid_generator,
                   model, compiled, epochs, epoch, order, seen_train, seen_valid, fwd, logs,
                   history, models_dir, files, err>>

Compile ==
    /\ pc = "compile"
    /\ compiled' = TRUE
    /\ pc' = "fit"
    /\ UNCHANGED <<input_shape, num_classes, dirs, train_generator, valid_generator,
                   model, epochs, epoch, order, seen_train, seen_valid, fwd, logs,
                   history, models_dir, files, err>>

(***************************************************************************)
(* Cell 10: model.fit_generator(train_generator, epochs, valid_generator). *)
(***************************************************************************)
\* The call reads the first batch of both sources before the first epoch:
\* a source without batches raises here, and the read sets the index arrays.
FitBegin ==
    /\ pc = "fit"
    /\ compiled
    /\ \E e \in 1..MaxEpochs :
         IF BatchCount(train_generator) = 0 \/ BatchCount(valid_generator) = 0
         THEN /\ Raise("ValueError")
              /\ UNCHANGED <<train_generator, valid_generator, epochs>>
         ELSE /\ epochs' = e
              /\ train_generator' \in SetIndexArray(train_generator)
              /\ valid_generator' \in SetIndexArray(valid_generator)
              /\ pc' = "epoch_begin"
              /\ UNCHANGED err
    /\ epoch' = 0
    /\ history' = <<>>
    /\ UNCHANGED <<input_shape, num_classes, dirs, model, compiled, order,
                   seen_train, seen_valid, fwd, logs, models_dir, files>>

EpochBegin ==
    /\ pc = "epoch_begin"
    /\ order' \in BatchOrders(train_generator, TRUE)
    /\ logs' = NoLogs
    /\ pc' = "train"
    /\ UNCHANGED <<input_shape, num_classes, dirs, train_generator, valid_generator,
                   model, compiled, epochs, epoch, seen_train, seen_valid, fwd,
                   history, models_dir, files, err>>

TrainBatch ==
    /\ pc = "train"
    /\ ~TrainPassDone(seen_train, train_generator)
    /\ LET idx == order[Len(seen_train) + 1]
           batch == GetItem(train_generator, idx)
       IN  /\ seen_train' = Append(seen_train, [idx |-> idx, samples |-> batch])
           /\ logs' = TrainLogs(logs, batch)
    /\ fwd' = [training |-> TRUE, ops |-> Forward(model.layers, TRUE)]
    /\ model' = TrainStep(model)
    /\ UNCHANGED <<input_shape, num_classes, dirs, train_generator, valid_generator,
                   compiled, pc, epochs, epoch, order, seen_valid, history,
                   models_dir, files, err>>

TrainPassEnd ==
    /\ pc = "train"
    /\ TrainPassDone(seen_train, train_generator)
    /\ order' = <<>>
    /\ seen_train' = <<>>
    /\ pc' = "valid"
    /\ UNCHANGED <<input_shape, num_classes, dirs, train_generator, valid_generator,
                   model, compiled, epochs, epoch, seen_valid, fwd, logs,
                   history, models_dir, files, err>>

ValidBatch ==
    /\ pc = "valid"
    /\ ~ValidPassDone(seen_valid, valid_generator)
    /\ LET idx == Len(seen_valid) + 1
           batch == GetItem(valid_generator, idx)
       IN  /\ seen_valid' = Append(seen_valid, [idx |-> idx, samples |-> batch])
           /\ logs' = ValidLogs(logs, batch)
    /\ fwd' = [training |-> FALSE, ops |-> Forward(model.layers, FALSE)]
    /\ model' = EvalStep(model)
    /\ UNCHANGED <<input_shape, num_classes, dirs, train_generator, valid_generator,
                   compiled, pc, epochs, epoch, order, seen_train, history,
                   models_dir, files, err>>

\* The epoch's entry is appended, both sources get on_epoch_end, the epoch's
\* batches are dropped, and the call returns after the last epoch.
EpochEnd ==
    /\ pc = "valid"
    /\ ValidPassDone(seen_valid, valid_generator)
    /\ history' = Append(history, Entry(logs))
    /\ epoch' = epoch + 1
    /\ train_generator' \in SetIndexArray(train_generator)
    /\ valid_generator' \in SetIndexArray(valid_generator)
    /\ seen_valid' = <<>>
    /\ pc' = IF epoch + 1 = epochs THEN "save_model" ELSE "epoch_begin"
    /\ UNCHANGED <<input_shape, num_classes, dirs, model, compiled, epochs, order,
                   seen_train, fwd, logs, models_dir, files, err>>

(***************************************************************************)
(* Cells 10 and 11: the three saves.  Each opens its target path for       *)
(* writing, which creates or truncates it, and then writes into it.        *)
(***************************************************************************)
SaveOpen(cur, nxt, p) ==
    /\ pc = cur
    /\ IF ~models_dir
       THEN Raise("OSError") /\ UNCHANGED files
       ELSE /\ files' = [files EXCEPT ![p] = FileOf("partial")]
            /\ pc' = nxt
            /\ UNCHANGED err
    /\ UNCHANGED <<input_shape, num_classes, dirs, train_generator, valid_generator,
                   model, compiled, epochs, epoch, order, seen_train, seen_valid, fwd, logs,
                   history, models_dir>>

SaveWrite(cur, nxt, p, data) ==
    /\ pc = cur
    /\ files' = [files EXCEPT ![p] = data]
    /\ pc' = nxt
    /\ UNCHANGED <<input_shape, num_classes, dirs, train_generator, valid_generator,
                   model, compiled, epochs, epoch, order, seen_train, seen_valid, fwd, logs,
                   history, models_dir, err>>

\* The write fails part way (the disk is full, the process is killed).
SaveFail(cur) ==
    /\ pc = cur
    /\ Raise("IOError")
    /\ UNCHANGED <<input_shape, num_classes, dirs, train_generator, valid_generator,
                   model, compiled, epochs, epoch, order, seen_train, seen_valid, fwd, logs,
                   history, models_dir, files>>

SaveModelOpen == SaveOpen("save_model", "write_model", "custom_model.h5")

SaveModelWrite ==
    SaveWrite("write_model", "save_weights", "custom_model.h5", save_model(model))

SaveModelFail == SaveFail("write_model")

SaveWeightsOpen == SaveOpen("save_weights", "write_weights", "custom_weights.h5")

SaveWeightsWrite ==
    SaveWrite("write_weights", "save_arch", "custom_weights.h5", save_weights(model))

SaveWeightsFail == SaveFail("write_weights")

SaveArchOpen == SaveOpen("save_arch", "write_arch", "custom_architecture.json")

SaveArchWrite ==
    SaveWrite("write_arch", "plot", "custom_architecture.json", save_architecture(model))

SaveArchFail == SaveFail("write_arch")

\* Cell 12: pydot is missing, plot_model prints a message and writes nothing.
PlotModel ==
    /\ pc = "plot"
    /\ pc' = "done"
    /\ UNCHANGED <<input_shape, num_classes, dirs, train_generator, valid_generator,
                   model, compiled, epochs, epoch, order, seen_train, seen_valid, fwd, logs,
                   history, models_dir, files, err>>

Next ==
    \/ OpenTrain
    \/ OpenValid
    \/ Build
    \/ Summary
    \/ Compile
    \/ FitBegin
    \/ EpochBegin
    \/ TrainBatch
    \/ TrainPassEnd
    \/ ValidBatch
    \/ EpochEnd
    \/ SaveModelOpen
    \/ SaveModelWrite
    \/ SaveModelFail
    \/ SaveWeightsOpen
    \/ SaveWeightsWrite
    \/ SaveWeightsFail
    \/ SaveArchOpen
    \/ SaveArchWrite
    \/ SaveArchFail
    \/ PlotModel

Spec == Init /\ [][Next]_vars

(***************************************************************************)
(* Cell 5 alone, one model.add at a time, over a range of input shapes     *)
(* and class counts.                                                       *)
(***************************************************************************)
InitBuild ==
    /\ input_shape \in {<<h, w, c>> : h \in (Height - ShapeSpread)..(Height + ShapeSpread),
                                      w \in (Width - ShapeSpread)..(Width + ShapeSpread),
                                      c \in {1, Channels}}
    /\ num_classes \in {2, NumClasses}
    /\ dirs = [train |-> Missing, val |-> Missing]
    /\ models_dir = FALSE
    /\ files = [p \in Paths |-> FileOf("absent")]
    /\ pc = "build"
    /\ InitCommon

AddLayer ==
    /\ pc = "build"
    /\ Len(model.layers) < Len(Stack(num_classes))
    /\ model' = AddTo(model, Stack(num_classes)[Len(model.layers) + 1])
    /\ UNCHANGED <<input_shape, num_classes, dirs, train_generator, valid_generator,
                   compiled, pc, epochs, epoch, order, seen_train, seen_valid, fwd, logs,
                   history, models_dir, files, err>>

NextBuild == AddLayer

SpecBuild == InitBuild /\ [][NextBuild]_vars

(***************************************************************************)
(* Properties.                                                             *)
(***************************************************************************)
InFit == pc \in {"epoch_begin", "train", "valid"}

\* fit_generator returned (the run went on to the save cells).
FitReturned ==
    \/ pc \in {"save_model", "write_model", "save_weights", "write_weights",
               "save_arch", "write_arch", "plot", "done"}
    \/ pc = "halt" /\ err \in {"OSError", "IOError"}

FullPasses ==
    [loss |-> train_generator.n, accuracy |-> train_generator.n,
     val_loss |-> valid_generator.n, val_accuracy |-> valid_generator.n]

\* C1: fit_generator runs its epochs one after another; in each epoch the
\* whole training pass comes first, with one parameter update per batch, the
\* whole validation pass second, and then exactly one history entry with the
\* four metrics, each taken over a full pass; when the call returns, history
\* has exactly `epochs` entries.
C1_EpochOrder ==
    /\ InFit => Len(history) = epoch /\ epoch < epochs
    /\ pc = "train" => logs.val_steps = 0
    /\ pc = "valid" =>
         /\ logs.steps = BatchCount(train_generator)
         /\ logs.loss = train_generator.n
    /\ pc \in {"train", "valid"} =>
         \A i \in 1..Len(model.weights) :
            model.weights[i] = epoch * BatchCount(train_generator) + logs.steps
    /\ \A i \in 1..Len(history) :
         /\ DOMAIN history[i] = {"loss", "accuracy", "val_loss", "val_accuracy"}
         /\ history[i] = FullPasses
    /\ FitReturned =>
         /\ epochs >= 1
         /\ Len(history) = epochs
         /\ epochs = NotebookEpochs => Len(history) = 3

C1_Witness ==
    /\ pc = "done"
    /\ epochs = NotebookEpochs
    /\ Len(history) = 3
    /\ BatchCount(train_generator) >= 2
    /\ BatchCount(valid_generator) >= 2

NoRepeats(q) == \A i, j \in 1..Len(q) : q[i] = q[j] => i = j

Range(q) == {q[i] : i \in 1..Len(q)}

\* The batches `seen` of one pass over source g, complete or not.
BatchesOfPass(g, seen) ==
    /\ Len(seen) <= BatchCount(g)
    /\ NoRepeats([i \in 1..Len(seen) |-> seen[i].idx])
    /\ \A i \in 1..Len(seen) :
         /\ seen[i].idx \in 1..BatchCount(g)
         /\ seen[i].idx < BatchCount(g) => Len(seen[i].samples) = g.batch_size
         /\ seen[i].idx = BatchCount(g) =>
              Len(seen[i].samples) \in 1..g.batch_size
    /\ NoRepeats(Samples(seen))
    /\ Range(Samples(seen)) \subseteq 1..g.n
    /\ Len(seen) = BatchCount(g) =>
         /\ Range(Samples(seen)) = 1..g.n
         /\ Len(Samples(seen)) = g.n

IsCeiling(k, n, b) == k * b >= n /\ (k - 1) * b < n

NotebookSource(n, b) ==
    flow_from_directory([exists |-> TRUE, classes |-> NumClasses, n |-> n], b, FALSE)

SummaryShapes ==
    << <<160, 160, 32>>, <<160, 160, 32>>, <<158, 158, 32>>, <<158, 158, 32>>,
       <<79, 79, 32>>, <<79, 79, 32>>, <<79, 79, 64>>, <<79, 79, 64>>,
       <<77, 77, 64>>, <<77, 77, 64>>, <<38, 38, 64>>, <<38, 38, 64>>,
       <<92416>>, <<512>>, <<512>>, <<512>>, <<10>>, <<10>> >>

\* Lines 222 to 256 of the notebook: the Param # column of the summary.
SummaryParams ==
    <<896, 0, 9248, 0, 0, 0, 18496, 0, 36928, 0, 0, 0, 0, 47317504, 0, 0, 5130, 0>>

RECURSIVE Sum(_)
Sum(q) == IF q = <<>> THEN 0 ELSE Head(q) + Sum(Tail(q))

StackBuilt == Len(model.layers) = Len(Stack(num_classes))

NotebookInput == model.input = <<Height, Width, Channels>> /\ num_classes = NumClasses

\* C3: in the stack built by cell 5 every layer gets an input of the rank it
\* works on, with all dimensions positive; activation and dropout layers
\* leave the shape as it is; the last layer's output width is num_classes;
\* and for input (160,160,3) and 10 classes the shapes and parameter counts
\* are those model.summary() prints.
C3_LayerShapes ==
    /\ \A i \in 1..Len(model.layers) :
         LET l == model.layers[i]
             in == InShape(model, i)
             out == model.shapes[i]
         IN  /\ l.kind \in {"Activation", "Dropout"} => out = in
             /\ l.kind \in {"Conv2D", "MaxPooling2D"} => Len(in) = 3 /\ Len(out) = 3
             /\ l.kind = "Dense" => Len(in) = 1
             /\ \A d \in 1..Len(out) : out[d] >= 1
             /\ NotebookInput =>
                  /\ out = SummaryShapes[i]
                  /\ ParamCount(l, in) = SummaryParams[i]
    /\ StackBuilt => LastShape(model) = <<num_classes>>
    /\ StackBuilt /\ NotebookInput =>
         Sum([i \in 1..Len(model.layers) |->
                ParamCount(model.layers[i], InShape(model, i))]) = 47388202

C3_Witness == StackBuilt /\ NotebookInput /\ model.shapes[13] = <<92416>>

\* C4: once the model is built, its parameter tensors change only in the
\* step that trains on one batch; validation batches, the data sources'
\* steps, summary, the three saves and plot_model leave them as they are.
C4_ParametersFrame ==
    [][(model.weights # <<>> /\ model.weights' # model.weights) =>
          (pc = "train" /\ pc' = "train" /\ logs'.steps = logs.steps + 1)]_vars

C4_Witness ==
    /\ pc = "done"
    /\ logs.val_steps >= 2
    /\ model.weights # <<>>
    /\ model.weights[1] = epochs * BatchCount(train_generator)
    /\ model.weights[1] >= 2

BadDirectory(d) == ~d.exists \/ d.classes = 0

NothingTrainedOrSaved ==
    /\ history = <<>>
    /\ logs = NoLogs
    /\ fwd = NoForward
    /\ \A i \in 1..Len(model.weights) : model.weights[i] = 0
    /\ \A p \in Paths : files[p].state \in {"absent", "old"}

\* C5: opening a data source on a directory that does not exist or has no
\* class subdirectory fails at the open call, so no iterator is ever bound
\* to such a directory, and nothing is trained or saved after such an open.
C5_OpenFailsOnBadDirectory ==
    /\ train_generator.bound => ~BadDirectory(dirs.train)
    /\ valid_generator.bound => ~BadDirectory(dirs.val)
    /\ (pc # "open_train" /\ BadDirectory(dirs.train)) => NothingTrainedOrSaved
    /\ (pc \notin {"open_train", "open_valid"} /\ BadDirectory(dirs.val)) =>
         NothingTrainedOrSaved

\* C6: no target path ever holds a partial or truncated file, neither while
\* a save is under way nor after a save that failed.
C6_NoPartialFile ==
    \A p \in Paths : files[p].state # "partial"

IsDropout(l) == l.kind = "Dropout"

Rates(layers) ==
    LET ds == SelectSeq(layers, IsDropout) IN [i \in 1..Len(ds) |-> ds[i].rate]

\* C8: every forward pass of the training pass runs in training mode, with
\* the three Dropout layers (25, 25, 50 per cent) acting; every forward pass
\* of the validation pass runs in evaluation mode, where it is the forward
\* pass of the stack with the Dropout layers taken out.
C8_ForwardModes ==
    /\ (pc = "train" /\ logs.steps > 0) =>
         /\ fwd.training
         /\ fwd.ops = Forward(model.layers, TRUE)
         /\ Rates(fwd.ops) = <<25, 25, 50>>
    /\ (pc = "valid" /\ logs.val_steps = 0) => fwd.training
    /\ (pc = "valid" /\ logs.val_steps > 0) =>
         /\ ~fwd.training
         /\ Rates(model.layers) = <<25, 25, 50>>
         /\ Rates(fwd.ops) = <<>>
         /\ fwd.ops = Forward(WithoutDropout(model.layers), FALSE)
         /\ fwd.ops = Forward(WithoutDropout(model.layers), TRUE)

C8_Witness ==
    /\ pc = "valid"
    /\ logs.val_steps = 2
    /\ epoch = 1
    /\ Len(fwd.ops) = 15

IsPermutation(q, n) == Len(q) = n /\ Range(q) = 1..n

====
